---- MODULE Spec2Model ----
(***************************************************************************)
(* AuthProvider of onedrivesdk (src/src/onedrivesdk/auth_provider.py): the *)
(* OAuth 2.0 device-code client.  The provider owns at most one Session;   *)
(* every method is modelled step by step, one action per statement group,  *)
(* for each caller that may be inside a method of the provider.            *)
(***************************************************************************)
EXTENDS Integers, Sequences, FiniteSets, TLC

(* ------------------------------ bounds --------------------------------- *)
\* the clock (time.time(), whole seconds) ticks on its own up to MaxTime
MaxTime == 3
\* largest expires_in a token or device-code response carries
MaxExpiresIn == 2
\* largest polling interval a device-code response carries
MaxInterval == 2
\* poll requests observed within one authenticate call
MaxPolls == 3

(* ------------------------------ values --------------------------------- *)
Callers == {"c1", "c2"}
MainCaller == "c1"

\* Python's None for an absent refresh token
None == "None"

ClientId == "client-id"
Resource == "https://res"
\* "https://login.microsoftonline.com/" + tenant_id + "/oauth2/token"
TenantTokenUrl == "https://login.microsoftonline.com/tenant/oauth2/token"
OtherTokenUrl == "https://other/oauth2/token"
\* the client id a session saved under another endpoint was created with
StoredClientId == "stored-client-id"

ExpiresIns == 1..MaxExpiresIn
Intervals == 1..MaxInterval

\* what json.loads yields for the "message" member: a JSON string is decoded
\* to the builtin text type
JsonStrings == {"visit the page and enter the code"}
\* a message value that answers .str(); the standard decoder yields none.
\* It keeps lines 166-197 in the model, so that statements about the poll
\* loop are decided by the code of the loop
StrObjects == {"message object with str()"}

\* a decoded JSON object: the members it has (keys) and their values; a member
\* that is absent keeps the default below and is never read
EmptyBody ==
  [keys |-> {}, token_type |-> "", expires_in |-> 0, access_token |-> "",
   refresh_token |-> "", device_code |-> "", interval |-> 0, message |-> ""]

Has(body, k) == k \in body.keys

\* response of the token endpoint to a refresh or a redeem
TokenBody(e, a, r) ==
  [EmptyBody EXCEPT !.keys = {"expires_in", "access_token", "refresh_token"},
                    !.expires_in = e, !.access_token = a, !.refresh_token = r]

\* response of the token endpoint to a device-code poll, refresh_token optional
PollTokenBody(e, a, r) ==
  IF r = None
  THEN [EmptyBody EXCEPT !.keys = {"token_type", "expires_in", "access_token"},
                         !.token_type = "bearer", !.expires_in = e,
                         !.access_token = a]
  ELSE [EmptyBody EXCEPT !.keys = {"token_type", "expires_in", "access_token",
                                    "refresh_token"},
                         !.token_type = "bearer", !.expires_in = e,
                         !.access_token = a, !.refresh_token = r]

\* {"error": "authorization_pending"}: parses as JSON, carries no token
PendingBody == [EmptyBody EXCEPT !.keys = {"error"}]

\* response to the device-code init request
DeviceBody(e, i, m) ==
  [EmptyBody EXCEPT !.keys = {"device_code", "expires_in", "interval", "message"},
                    !.device_code = "device-code", !.expires_in = e,
                    !.interval = i, !.message = m]

\* an init response without its "message" member
DeviceBodyNoMessage ==
  [EmptyBody EXCEPT !.keys = {"device_code", "expires_in", "interval"},
                    !.device_code = "device-code", !.expires_in = 1,
                    !.interval = 1]

\* http_provider.send either raises or returns a response whose content
\* json.loads either rejects or decodes
Raised == [status |-> "raise", body |-> EmptyBody]
NotJson == [status |-> "nonjson", body |-> EmptyBody]
Json(body) == [status |-> "json", body |-> body]
NoResponse == [status |-> "none", body |-> EmptyBody]

RefreshResponses ==
  {Raised, NotJson}
  \cup {Json(TokenBody(e, a, "rt1")) : e \in ExpiresIns, a \in {"at1", "at2"}}
  \cup {Json([TokenBody(1, "at1", "rt1") EXCEPT !.keys = @ \ {k}]) :
          k \in {"expires_in", "access_token", "refresh_token"}}

InitResponses ==
  {Raised, NotJson, Json(DeviceBodyNoMessage)}
  \cup {Json(DeviceBody(e, i, m)) :
          e \in ExpiresIns, i \in Intervals, m \in JsonStrings \cup StrObjects}

PollResponses ==
  {Raised, NotJson, Json(PendingBody),
   Json(PollTokenBody(1, "at1", "rt1")), Json(PollTokenBody(1, "at2", None))}

\* a request handed to http_provider.send: url and form data
NoRequest == [url |-> "", grant_type |-> "", client_id |-> "",
              refresh_token |-> "", resource |-> "", code |-> ""]
Request(url, grant, cid, rt, res, code) ==
  [url |-> url, grant_type |-> grant, client_id |-> cid,
   refresh_token |-> rt, resource |-> res, code |-> code]

(* ------------------------------ Session -------------------------------- *)
\* self._session = None
NoSession == [is_none |-> TRUE]

\* the sessions a backing store may hold
StoredSessions ==
  { [token_type |-> "bearer", expires_at |-> x, access_token |-> "at0",
     client_id |-> IF u = TenantTokenUrl THEN ClientId ELSE StoredClientId,
     auth_token_url |-> u, refresh_token |-> r] :
      x \in {1, MaxTime + 1}, u \in {TenantTokenUrl, OtherTokenUrl},
      r \in {None, "rt0"} }

\* Session(token_type, expires_in, access_token, client_id, auth_token_url,
\* refresh_token), built at time t: the expiry is stored as an instant
NewSession(tt, e, a, cid, url, r, t) ==
  [token_type |-> tt, expires_at |-> t + e, access_token |-> a,
   client_id |-> cid, auth_token_url |-> url, refresh_token |-> r]

\* Session.is_expired() at time t
is_expired(s, t) == t >= s.expires_at

\* Session.refresh_session(expires_in, access_token, refresh_token) at time t,
\* called with the positional arguments args: a call that does not bind to the
\* three parameters raises TypeError and leaves the session as it was
refresh_session(s, args, t) ==
  IF Len(args) # 3
  THEN [err |-> "TypeError", session |-> s]
  ELSE [err |-> "ok",
        session |-> [s EXCEPT !.expires_at = t + args[1],
                              !.access_token = args[2],
                              !.refresh_token = args[3]]]

(* ------------------------------- state --------------------------------- *)
VARIABLES
  session,         \* self._session
  auth_token_url,  \* self._auth_token_url
  now,             \* time.time()
  pc,              \* per caller: the statement it is at ("idle": in no method)
  op,              \* per caller: the method it called last
  outcome,         \* per caller: how that call ended ("ok" or the error raised)
  frame,           \* per caller: the locals of the method
  obs              \* per caller: what the call has done so far (history)

vars == <<session, auth_token_url, now, pc, op, outcome, frame, obs>>

\* response: what the last http_provider.send did (it raised, or the response
\* it returned); rcont_none: rcont is still None
NoFrame ==
  [response |-> NoResponse, rcont_none |-> TRUE, rcont |-> EmptyBody,
   device_code |-> "", expires_in |-> 0, interval |-> 0, message |-> "",
   t_end |-> 0]

\* pre: the session when the call began; nsent, lastReq: requests handed to
\* http_provider.send; hdr: options appended to the caller's request; printed:
\* messages printed; storeOps: calls into the session store; applied: updates of
\* the session from a response; sawExpired: is_expired() answered true;
\* polls, failed, parsed, sleeps: the poll loop's attempts, those that raised,
\* those that parsed, and the sleeps; first, failed1: the first poll response
\* that parsed and the attempts that had failed by then; assigned: assignments
\* to self._session; appliedAt: the time of the last update of the session;
\* testAt: the time the last loop test of line 179 read; latePoll: a poll was
\* sent when the clock had reached the deadline; badTest: a poll was sent
\* after a loop test that read a time at or past the deadline; last: the
\* session was last written by this call
NoObs ==
  [pre |-> NoSession, nsent |-> 0, lastReq |-> NoRequest, hdr |-> <<>>,
   printed |-> 0, storeOps |-> 0, applied |-> 0, sawExpired |-> FALSE,
   polls |-> 0, failed |-> 0, parsed |-> 0, sleeps |-> 0,
   first |-> EmptyBody, failed1 |-> 0, assigned |-> 0, appliedAt |-> 0,
   testAt |-> 0, latePoll |-> FALSE, badTest |-> FALSE, last |-> FALSE]

Methods == {"authenticate", "authenticate_request", "refresh_token",
            "redeem_refresh_token", "save_session", "load_session",
            "auth_token_url.setter"}

Entry(m) ==
  CASE m = "authenticate" -> "au_send"
    [] m = "authenticate_request" -> "ar_check"
    [] m = "refresh_token" -> "rt_check"
    [] m = "redeem_refresh_token" -> "rd_check"
    [] m = "save_session" -> "sv"
    [] m = "load_session" -> "ld"
    [] m = "auth_token_url.setter" -> "su"

\* the statements of authenticate's poll loop, lines 179-187
PollLabels == {"au_loop", "au_poll", "au_sleep"}

Init ==
  /\ session = NoSession
  /\ auth_token_url = TenantTokenUrl
  /\ now = 0
  /\ pc = [c \in Callers |-> "idle"]
  /\ op = [c \in Callers |-> "none"]
  /\ outcome = [c \in Callers |-> "none"]
  /\ frame = [c \in Callers |-> NoFrame]
  /\ obs = [c \in Callers |-> NoObs]

\* the method returns (result "ok") or raises (result: the error)
Finish(c, result) ==
  /\ pc' = [pc EXCEPT ![c] = "idle"]
  /\ outcome' = [outcome EXCEPT ![c] = result]

Goto(c, label) ==
  /\ pc' = [pc EXCEPT ![c] = label]
  /\ UNCHANGED outcome

\* history: the call of caller c has updated the session from a response
Applied(c) ==
  [d \in Callers |->
     IF d = c
     THEN [obs[d] EXCEPT !.applied = @ + 1, !.appliedAt = now, !.last = TRUE]
     ELSE [obs[d] EXCEPT !.last = FALSE]]

\* history: the call of caller c has assigned self._session
Assigned(c) ==
  [d \in Callers |->
     IF d = c
     THEN [obs[d] EXCEPT !.assigned = @ + 1, !.last = TRUE]
     ELSE [obs[d] EXCEPT !.last = FALSE]]

\* time passes: the clock is followed up to MaxTime, and beyond it for as long
\* as a poll loop is waiting for its deadline
Tick ==
  /\ \/ now < MaxTime
     \/ \E c \in Callers : pc[c] \in PollLabels /\ now < frame[c].t_end
  /\ now' = now + 1
  /\ UNCHANGED <<session, auth_token_url, pc, op, outcome, frame, obs>>

\* the caller invokes method m of the provider; device-code flows are started
\* while the clock is within MaxTime
Call(c, m) ==
  /\ pc[c] = "idle"
  /\ m = "authenticate" => now <= MaxTime
  /\ pc' = [pc EXCEPT ![c] = Entry(m)]
  /\ op' = [op EXCEPT ![c] = m]
  /\ outcome' = [outcome EXCEPT ![c] = "running"]
  /\ frame' = [frame EXCEPT ![c] = NoFrame]
  /\ obs' = [obs EXCEPT ![c] = [NoObs EXCEPT !.pre = session]]
  /\ UNCHANGED <<session, auth_token_url, now>>

(* ------------------------ authenticate_request ------------------------- *)
\* if self._session is None: raise RuntimeError("Session must be authenticated...")
NeedsSession(s) == s = NoSession

\* mutant: the refresh-token guard is dropped
NeedsRefreshToken_dropped(s) == FALSE

\* if self._session.refresh_token is None: raise RuntimeError("Refresh token not present.")
NeedsRefreshToken(s) == s.refresh_token = None

\* mutant: the header is formatted from the token read when the call began
AuthorizationHeader_stale(s) ==
  [name |-> "Authorization", scheme |-> "bearer",
   token |-> obs[MainCaller].pre.access_token]

\* HeaderOption("Authorization", "bearer {}".format(self._session.access_token))
AuthorizationHeader(s) ==
  [name |-> "Authorization", scheme |-> "bearer", token |-> s.access_token]

\* lines 210-212
ar_check(c) ==
  /\ pc[c] = "ar_check"
  /\ IF NeedsSession(session)
     THEN Finish(c, "NotAuthenticated")
     ELSE Goto(c, "ar_expired")
  /\ UNCHANGED <<session, auth_token_url, now, op, frame, obs>>

\* mutant: the header is appended before the expired session is refreshed
ar_expired_attach_first(c) ==
  /\ pc[c] = "ar_expired"
  /\ IF is_expired(session, now)
     THEN /\ Goto(c, "rt_check")
          /\ obs' = [obs EXCEPT ![c].sawExpired = TRUE,
                                ![c].hdr = Append(@, AuthorizationHeader(session))]
     ELSE /\ Goto(c, "ar_attach")
          /\ UNCHANGED obs
  /\ UNCHANGED <<session, auth_token_url, now, op, frame>>

\* mutant: the session is refreshed on every call, expired or not
ar_expired_eager(c) ==
  /\ pc[c] = "ar_expired"
  /\ Goto(c, "rt_check")
  /\ obs' = [obs EXCEPT ![c].sawExpired = is_expired(session, now)]
  /\ UNCHANGED <<session, auth_token_url, now, op, frame>>

\* lines 214-215: refresh_token() is called when the session is expired
ar_expired(c) ==
  /\ pc[c] = "ar_expired"
  /\ IF is_expired(session, now)
     THEN /\ Goto(c, "rt_check")
          /\ obs' = [obs EXCEPT ![c].sawExpired = TRUE]
     ELSE /\ Goto(c, "ar_attach")
          /\ UNCHANGED obs
  /\ UNCHANGED <<session, auth_token_url, now, op, frame>>

\* lines 217-219
ar_attach(c) ==
  /\ pc[c] = "ar_attach"
  /\ obs' = [obs EXCEPT ![c].hdr = Append(@, AuthorizationHeader(session))]
  /\ Finish(c, "ok")
  /\ UNCHANGED <<session, auth_token_url, now, op, frame>>

(* ---------------------------- refresh_token ---------------------------- *)
\* mutant: the refresh is posted to the provider's auth_token_url
RefreshRequest_provider_url(s) ==
  Request(auth_token_url, "refresh_token", s.client_id, s.refresh_token, "", "")

\* the request of lines 230-240: posted to the endpoint stored in the session
RefreshRequest(s) ==
  Request(s.auth_token_url, "refresh_token", s.client_id, s.refresh_token, "", "")

\* mutant: the refresh_token member is read with a default instead of rcont[...]
TokenMembers_partial == {"expires_in", "access_token"}

\* rcont["expires_in"], rcont["access_token"], rcont["refresh_token"]: a
\* missing member raises KeyError
TokenMembers == {"expires_in", "access_token", "refresh_token"}

\* mutant: access_token and refresh_token change places
RefreshArgs_swapped(rcont) ==
  <<rcont.expires_in, rcont.refresh_token, rcont.access_token>>

\* the arguments of self._session.refresh_session(...) at lines 242-244
RefreshArgs(rcont) ==
  <<rcont.expires_in, rcont.access_token, rcont.refresh_token>>

\* mutant: authenticate_request returns what refresh_token returns
AfterRefresh_returns(c) == Finish(c, "ok")

\* where refresh_token returns to: into authenticate_request, or to the caller
AfterRefresh(c) ==
  IF op[c] = "authenticate_request"
  THEN Goto(c, "ar_attach")
  ELSE Finish(c, "ok")

\* lines 223-228
rt_check(c) ==
  /\ pc[c] = "rt_check"
  /\ IF NeedsSession(session)
     THEN Finish(c, "NotAuthenticated")
     ELSE IF NeedsRefreshToken(session)
          THEN Finish(c, "MissingRefreshToken")
          ELSE Goto(c, "rt_send")
  /\ UNCHANGED <<session, auth_token_url, now, op, frame, obs>>

\* lines 230-240: one blocking send; it raises or returns a response
rt_send(c) ==
  /\ pc[c] = "rt_send"
  /\ \E resp \in RefreshResponses :
       /\ obs' = [obs EXCEPT ![c].nsent = @ + 1,
                             ![c].lastReq = RefreshRequest(session)]
       /\ frame' = [frame EXCEPT ![c].response = resp]
       /\ IF resp.status = "raise"
          THEN Finish(c, "TransportError")
          ELSE Goto(c, "rt_apply")
  /\ UNCHANGED <<session, auth_token_url, now, op>>

\* mutant: a response is dropped when the session is no longer the one the
\* call began with
rt_apply_keep_first(c) ==
  /\ pc[c] = "rt_apply"
  /\ LET resp == frame[c].response
         upd == refresh_session(session, RefreshArgs(resp.body), now)
     IN IF resp.status = "nonjson"
        THEN /\ Finish(c, "MalformedResponse")
             /\ UNCHANGED <<session, frame, obs>>
        ELSE /\ frame' = [frame EXCEPT ![c].rcont = resp.body,
                                       ![c].rcont_none = FALSE]
             /\ IF ~(TokenMembers \subseteq resp.body.keys)
                THEN /\ Finish(c, "KeyError")
                     /\ UNCHANGED <<session, obs>>
                ELSE /\ session' = IF session = obs[c].pre
                                   THEN upd.session ELSE session
                     /\ obs' = Applied(c)
                     /\ AfterRefresh(c)
  /\ UNCHANGED <<auth_token_url, now, op>>

\* lines 241-244
rt_apply(c) ==
  /\ pc[c] = "rt_apply"
  /\ LET resp == frame[c].response
         upd == refresh_session(session, RefreshArgs(resp.body), now)
     IN IF resp.status = "nonjson"
        THEN /\ Finish(c, "MalformedResponse")
             /\ UNCHANGED <<session, frame, obs>>
        ELSE /\ frame' = [frame EXCEPT ![c].rcont = resp.body,
                                       ![c].rcont_none = FALSE]
             /\ IF ~(TokenMembers \subseteq resp.body.keys)
                THEN /\ Finish(c, "KeyError")
                     /\ UNCHANGED <<session, obs>>
                ELSE IF upd.err # "ok"
                     THEN /\ Finish(c, upd.err)
                          /\ UNCHANGED <<session, obs>>
                     ELSE /\ session' = upd.session
                          /\ obs' = Applied(c)
                          /\ AfterRefresh(c)
  /\ UNCHANGED <<auth_token_url, now, op>>

(* ------------------------ redeem_refresh_token ------------------------- *)
\* the request of lines 261-272: posted to the provider's auth_token_url
RedeemRequest(s, url, resource) ==
  Request(url, "refresh_token", s.client_id, s.refresh_token, resource, "")

\* the arguments of self._session.refresh_session(...) at lines 274-277
RedeemArgs(rcont) ==
  <<rcont.expires_in, "", rcont.access_token, rcont.refresh_token>>

\* lines 254-259
rd_check(c) ==
  /\ pc[c] = "rd_check"
  /\ IF NeedsSession(session)
     THEN Finish(c, "NotAuthenticated")
     ELSE IF NeedsRefreshToken(session)
          THEN Finish(c, "MissingRefreshToken")
          ELSE Goto(c, "rd_send")
  /\ UNCHANGED <<session, auth_token_url, now, op, frame, obs>>

\* lines 261-272
rd_send(c) ==
  /\ pc[c] = "rd_send"
  /\ \E resp \in RefreshResponses :
       /\ obs' = [obs EXCEPT ![c].nsent = @ + 1,
                             ![c].lastReq =
                                RedeemRequest(session, auth_token_url, Resource)]
       /\ frame' = [frame EXCEPT ![c].response = resp]
       /\ IF resp.status = "raise"
          THEN Finish(c, "TransportError")
          ELSE Goto(c, "rd_apply")
  /\ UNCHANGED <<session, auth_token_url, now, op>>

\* lines 273-277
rd_apply(c) ==
  /\ pc[c] = "rd_apply"
  /\ LET resp == frame[c].response
         upd == refresh_session(session, RedeemArgs(resp.body), now)
     IN IF resp.status = "nonjson"
        THEN /\ Finish(c, "MalformedResponse")
             /\ UNCHANGED <<session, frame, obs>>
        ELSE /\ frame' = [frame EXCEPT ![c].rcont = resp.body,
                                       ![c].rcont_none = FALSE]
             /\ IF ~(TokenMembers \subseteq resp.body.keys)
                THEN /\ Finish(c, "KeyError")
                     /\ UNCHANGED <<session, obs>>
                ELSE IF upd.err # "ok"
                     THEN /\ Finish(c, upd.err)
                          /\ UNCHANGED <<session, obs>>
                     ELSE /\ session' = upd.session
                          /\ obs' = Applied(c)
                          /\ Finish(c, "ok")
  /\ UNCHANGED <<auth_token_url, now, op>>

(* --------------------- save_session / load_session --------------------- *)
\* mutant: save_session without its session guard
save_session_unguarded(c) ==
  /\ pc[c] = "sv"
  /\ obs' = [obs EXCEPT ![c].storeOps = @ + 1]
  /\ Finish(c, "ok")
  /\ UNCHANGED <<session, auth_token_url, now, op, frame>>

\* lines 287-290: self._session.save_session(**save_session_kwargs)
save_session(c) ==
  /\ pc[c] = "sv"
  /\ IF NeedsSession(session)
     THEN /\ Finish(c, "NotAuthenticated")
          /\ UNCHANGED obs
     ELSE /\ obs' = [obs EXCEPT ![c].storeOps = @ + 1]
          /\ Finish(c, "ok")
  /\ UNCHANGED <<session, auth_token_url, now, op, frame>>

\* mutant: a load that raises drops the session held
load_session_clears(c) ==
  /\ pc[c] = "ld"
  /\ \/ /\ \E s \in StoredSessions : session' = s
        /\ obs' = [Assigned(c) EXCEPT ![c].storeOps = @ + 1]
        /\ Finish(c, "ok")
     \/ /\ session' = NoSession
        /\ obs' = [obs EXCEPT ![c].storeOps = @ + 1]
        /\ Finish(c, "StoreError")
  /\ UNCHANGED <<auth_token_url, now, op, frame>>

\* line 299: self._session = self._session_type.load_session(**kwargs); the
\* store hands back one of the sessions it holds, or raises
load_session(c) ==
  /\ pc[c] = "ld"
  /\ \/ /\ \E s \in StoredSessions : session' = s
        /\ obs' = [Assigned(c) EXCEPT ![c].storeOps = @ + 1]
        /\ Finish(c, "ok")
     \/ /\ UNCHANGED session
        /\ obs' = [obs EXCEPT ![c].storeOps = @ + 1]
        /\ Finish(c, "StoreError")
  /\ UNCHANGED <<auth_token_url, now, op, frame>>

(* ------------------------- auth_token_url setter ----------------------- *)
\* lines 124-126: self._auth_token_url = value
set_auth_token_url(c) ==
  /\ pc[c] = "su"
  /\ \E value \in {TenantTokenUrl, OtherTokenUrl} : auth_token_url' = value
  /\ Finish(c, "ok")
  /\ UNCHANGED <<session, now, op, frame, obs>>

(* ----------------------------- authenticate ---------------------------- *)
\* the device-code init request of lines 148-158
InitRequest(url) == Request(url, "", ClientId, "", Resource, "")

\* the poll request of lines 168-184
PollRequest(url, code) == Request(url, "device_code", ClientId, "", Resource, code)

\* rcont["device_code"], rcont["expires_in"], rcont["interval"], rcont["message"]
DeviceMembers == {"device_code", "expires_in", "interval", "message"}

\* rcont["message"].str() at line 164: the builtin text type json.loads yields
\* has no attribute str, so the call raises AttributeError
StrRaises(m) == m \notin StrObjects

\* t_end = time.time() + int(expires_in), line 178
Deadline(t, e) == t + e

\* mutant: the loop test ignores the deadline
LoopContinues_forever(t, t_end) == TRUE

\* mutant: the loop test admits the deadline itself
LoopContinues_inclusive(t, t_end) == t <= t_end

\* while time.time() < t_end, line 179
LoopContinues(t, t_end) == t < t_end

\* if time.time() >= t_end, line 189
TimedOut(t, t_end) == t >= t_end

\* mutant: the sleep is moved out of the except clause
AfterPoll_always_sleep(parsedOk) == "au_sleep"

\* lines 181-187: the try body has no break, so after a response that parsed
\* control returns to the loop test; the except clause sleeps
AfterPoll(parsedOk) == IF parsedOk THEN "au_loop" ELSE "au_sleep"

\* rcont["token_type"], rcont["expires_in"], rcont["access_token"], lines 192-194
SessionMembers == {"token_type", "expires_in", "access_token"}

\* lines 148-158
au_send(c) ==
  /\ pc[c] = "au_send"
  /\ \E resp \in InitResponses :
       /\ obs' = [obs EXCEPT ![c].nsent = @ + 1,
                             ![c].lastReq = InitRequest(auth_token_url)]
       /\ frame' = [frame EXCEPT ![c].response = resp]
       /\ IF resp.status = "raise"
          THEN Finish(c, "TransportError")
          ELSE Goto(c, "au_parse")
  /\ UNCHANGED <<session, auth_token_url, now, op>>

\* lines 160-164
au_parse(c) ==
  /\ pc[c] = "au_parse"
  /\ LET resp == frame[c].response
         body == resp.body
     IN IF resp.status = "nonjson"
        THEN /\ Finish(c, "MalformedResponse")
             /\ UNCHANGED frame
        ELSE IF ~(DeviceMembers \subseteq body.keys)
             THEN /\ Finish(c, "KeyError")
                  /\ frame' = [frame EXCEPT ![c].rcont = body,
                                            ![c].rcont_none = FALSE]
             ELSE /\ frame' = [frame EXCEPT ![c].rcont = body,
                                            ![c].rcont_none = FALSE,
                                            ![c].device_code = body.device_code,
                                            ![c].expires_in = body.expires_in,
                                            ![c].interval = body.interval]
                  /\ IF StrRaises(body.message)
                     THEN Finish(c, "AttributeError")
                     ELSE Goto(c, "au_print")
  /\ UNCHANGED <<session, auth_token_url, now, op, obs>>

\* line 166: print(message)
au_print(c) ==
  /\ pc[c] = "au_print"
  /\ frame' = [frame EXCEPT ![c].message = frame[c].rcont.message]
  /\ obs' = [obs EXCEPT ![c].printed = @ + 1]
  /\ Goto(c, "au_deadline")
  /\ UNCHANGED <<session, auth_token_url, now, op>>

\* lines 168-178
au_deadline(c) ==
  /\ pc[c] = "au_deadline"
  /\ frame' = [frame EXCEPT ![c].rcont = EmptyBody,
                            ![c].rcont_none = TRUE,
                            ![c].t_end = Deadline(now, frame[c].expires_in)]
  /\ Goto(c, "au_loop")
  /\ UNCHANGED <<session, auth_token_url, now, op, obs>>

\* line 179; a call that has sent MaxPolls polls waits here for the clock
au_loop(c) ==
  /\ pc[c] = "au_loop"
  /\ IF LoopContinues(now, frame[c].t_end)
     THEN /\ obs[c].polls < MaxPolls
          /\ Goto(c, "au_poll")
     ELSE Goto(c, "au_resolve")
  /\ obs' = [obs EXCEPT ![c].testAt = now]
  /\ UNCHANGED <<session, auth_token_url, now, op, frame>>

\* lines 180-186: send raises, json.loads raises, or rcont is bound
au_poll(c) ==
  /\ pc[c] = "au_poll"
  /\ \E resp \in PollResponses :
       LET parsedOk == resp.status = "json"
       IN /\ frame' = [frame EXCEPT
                         ![c].response = resp,
                         ![c].rcont = IF parsedOk THEN resp.body ELSE @,
                         ![c].rcont_none = IF parsedOk THEN FALSE ELSE @]
          /\ obs' = [obs EXCEPT
                       ![c].nsent = @ + 1,
                       ![c].lastReq = PollRequest(auth_token_url, frame[c].device_code),
                       ![c].polls = @ + 1,
                       ![c].failed = IF parsedOk THEN @ ELSE @ + 1,
                       ![c].parsed = IF parsedOk THEN @ + 1 ELSE @,
                       ![c].first = IF parsedOk /\ obs[c].parsed = 0
                                    THEN resp.body ELSE @,
                       ![c].failed1 = IF parsedOk /\ obs[c].parsed = 0
                                      THEN obs[c].failed ELSE @,
                       ![c].latePoll = @ \/ now >= frame[c].t_end,
                       ![c].badTest = @ \/ obs[c].testAt >= frame[c].t_end]
          /\ Goto(c, AfterPoll(parsedOk))
  /\ UNCHANGED <<session, auth_token_url, now, op>>

\* line 187: time.sleep(interval)
au_sleep(c) ==
  /\ pc[c] = "au_sleep"
  /\ now' = now + frame[c].interval
  /\ obs' = [obs EXCEPT ![c].sleeps = @ + 1]
  /\ Goto(c, "au_loop")
  /\ UNCHANGED <<session, auth_token_url, op, frame>>

\* mutant: the session is built from whatever the last parsed response holds
au_resolve_partial(c) ==
  /\ pc[c] = "au_resolve"
  /\ LET rcont == frame[c].rcont
     IN IF frame[c].rcont_none
        THEN Finish(c, "Timeout") /\ UNCHANGED <<session, obs>>
        ELSE /\ obs' = Assigned(c)
             /\ session' =
                  NewSession(rcont.token_type, rcont.expires_in,
                             rcont.access_token, ClientId, auth_token_url,
                             IF Has(rcont, "refresh_token")
                             THEN rcont.refresh_token ELSE None,
                             now)
             /\ Finish(c, "ok")
  /\ UNCHANGED <<auth_token_url, now, op, frame>>

\* lines 189-197
au_resolve(c) ==
  /\ pc[c] = "au_resolve"
  /\ LET rcont == frame[c].rcont
     IN IF TimedOut(now, frame[c].t_end)
        THEN Finish(c, "Timeout") /\ UNCHANGED <<session, obs>>
        ELSE IF frame[c].rcont_none
             THEN Finish(c, "TypeError") /\ UNCHANGED <<session, obs>>
             ELSE IF ~(SessionMembers \subseteq rcont.keys)
                  THEN Finish(c, "KeyError") /\ UNCHANGED <<session, obs>>
                  ELSE /\ obs' = Assigned(c)
                       /\ session' =
                            NewSession(rcont.token_type, rcont.expires_in,
                                       rcont.access_token, ClientId, auth_token_url,
                                       IF Has(rcont, "refresh_token")
                                       THEN rcont.refresh_token ELSE None,
                                       now)
                       /\ Finish(c, "ok")
  /\ UNCHANGED <<auth_token_url, now, op, frame>>

(* ------------------------------ behaviours ----------------------------- *)
Step(c) ==
  \/ \E m \in Methods : Call(c, m)
  \/ ar_check(c) \/ ar_expired(c) \/ ar_attach(c)
  \/ rt_check(c) \/ rt_send(c) \/ rt_apply(c)
  \/ rd_check(c) \/ rd_send(c) \/ rd_apply(c)
  \/ save_session(c) \/ load_session(c) \/ set_auth_token_url(c)
  \/ au_send(c) \/ au_parse(c) \/ au_print(c) \/ au_deadline(c)
  \/ au_loop(c) \/ au_poll(c) \/ au_sleep(c) \/ au_resolve(c)

\* one logical flow of control: a single caller uses the provider
Next == Tick \/ Step(MainCaller)

Spec == Init /\ [][Next]_vars

\* the caller keeps running and the clock keeps advancing
AuthStep(c) ==
  \/ Call(c, "authenticate")
  \/ au_send(c) \/ au_parse(c) \/ au_print(c) \/ au_deadline(c)
  \/ au_loop(c) \/ au_poll(c) \/ au_sleep(c) \/ au_resolve(c)

LiveNext == Tick \/ AuthStep(MainCaller)

LiveSpec ==
  /\ Init
  /\ [][LiveNext]_vars
  /\ WF_vars(Tick)
  /\ WF_vars(AuthStep(MainCaller))

\* no external lock: every caller may be inside authenticate_request, and
\* their statements interleave; the session is loaded from the store once
RaceStep(c) ==
  \/ Call(c, "authenticate_request")
  \/ ar_check(c) \/ ar_expired(c) \/ ar_attach(c)
  \/ rt_check(c) \/ rt_send(c) \/ rt_apply(c)

RaceNext ==
  \/ Tick
  \/ session = NoSession /\ Call(MainCaller, "load_session")
  \/ load_session(MainCaller)
  \/ \E c \in Callers : RaceStep(c)

RaceSpec == Init /\ [][RaceNext]_vars

(* ------------------------------- claims -------------------------------- *)
Ended(c, m) == op[c] = m /\ pc[c] = "idle"

\* the init response had device_code, expires_in, interval and message
InitWellFormed(c) == op[c] = "authenticate" /\ frame[c].device_code # ""

\* C1: authenticate_request, refresh_token, redeem_refresh_token and
\* save_session, called while the provider holds no session, raise
\* NotAuthenticated, send no HTTP request, attach no header, call nothing of the
\* session store, and the provider still holds no session.
C1_NoSessionFailsFast ==
  \A c \in Callers :
    (/\ op[c] \in {"authenticate_request", "refresh_token",
                   "redeem_refresh_token", "save_session"}
     /\ obs[c].pre = NoSession)
    => /\ obs[c].nsent = 0
       /\ obs[c].hdr = <<>>
       /\ obs[c].storeOps = 0
       /\ session = NoSession
       /\ pc[c] \in {"idle", "ar_check", "rt_check", "rd_check", "sv"}
       /\ pc[c] = "idle" => outcome[c] = "NotAuthenticated"

C1_Witness ==
  /\ Ended(MainCaller, "save_session")
  /\ obs[MainCaller].pre = NoSession
  /\ outcome[MainCaller] = "NotAuthenticated"

\* C2: refresh_token and redeem_refresh_token, called on a session without a
\* refresh token, raise MissingRefreshToken, send no HTTP request and leave
\* every field of the session unchanged.
C2_MissingRefreshToken ==
  \A c \in Callers :
    (/\ op[c] \in {"refresh_token", "redeem_refresh_token"}
     /\ obs[c].pre # NoSession
     /\ obs[c].pre.refresh_token = None)
    => /\ obs[c].nsent = 0
       /\ session = obs[c].pre
       /\ pc[c] = "idle" => outcome[c] = "MissingRefreshToken"

C2_Witness ==
  /\ Ended(MainCaller, "redeem_refresh_token")
  /\ obs[MainCaller].pre # NoSession
  /\ obs[MainCaller].pre.refresh_token = None
  /\ outcome[MainCaller] = "MissingRefreshToken"

\* C3: one authenticate_request call on an expired session that holds a refresh
\* token sends exactly one refresh request, and the request is sent and its
\* response applied to the session before the Authorization header is attached.
C3_OneRefreshBeforeHeader ==
  \A c \in Callers :
    (/\ op[c] = "authenticate_request"
     /\ obs[c].sawExpired
     /\ obs[c].pre.refresh_token # None)
    => /\ obs[c].nsent <= 1
       /\ pc[c] = "idle" => obs[c].nsent = 1
       /\ obs[c].hdr # <<>> =>
            /\ Len(obs[c].hdr) = 1
            /\ obs[c].nsent = 1
            /\ obs[c].lastReq.grant_type = "refresh_token"
            /\ obs[c].applied = 1
            /\ session = refresh_session(obs[c].pre,
                                         RefreshArgs(frame[c].response.body),
                                         session.expires_at
                                           - frame[c].response.body.expires_in).session

C3_Witness ==
  /\ Ended(MainCaller, "authenticate_request")
  /\ obs[MainCaller].sawExpired
  /\ outcome[MainCaller] = "ok"
  /\ Len(obs[MainCaller].hdr) = 1
  /\ obs[MainCaller].nsent = 1

\* C6: after a redeem_refresh_token call whose HTTP request succeeded with
\* expires_in, access_token and refresh_token, the session's access token is
\* the response's access_token.
C6_RedeemAppliesAccessToken ==
  \A c \in Callers :
    (/\ Ended(c, "redeem_refresh_token")
     /\ frame[c].response.status = "json"
     /\ TokenMembers \subseteq frame[c].response.body.keys)
    => /\ outcome[c] = "ok"
       /\ session.access_token = frame[c].response.body.access_token


\* C4: when the polls fail N times and then return a token response, with
\* N * interval < expires_in, authenticate sleeps N times and returns with the
\* session replaced by one built from that response.
C4_PollSuccessCreatesSession ==
  \A c \in Callers :
    (/\ Ended(c, "authenticate")
     /\ InitWellFormed(c)
     /\ obs[c].parsed >= 1
     /\ SessionMembers \subseteq obs[c].first.keys
     /\ obs[c].failed1 * frame[c].interval < frame[c].expires_in)
    => /\ outcome[c] = "ok"
       /\ obs[c].sleeps = obs[c].failed1
       /\ session # NoSession
       /\ session.access_token = obs[c].first.access_token
       /\ session.token_type = obs[c].first.token_type
       /\ session.refresh_token =
            IF Has(obs[c].first, "refresh_token")
            THEN obs[c].first.refresh_token ELSE None

\* C5: when every poll attempt fails, authenticate raises Timeout once the
\* deadline has passed, and the session the provider held before is unchanged.
C5_AllPollsFailTimeout ==
  \A c \in Callers :
    (/\ Ended(c, "authenticate")
     /\ InitWellFormed(c)
     /\ obs[c].parsed = 0)
    => /\ outcome[c] = "Timeout"
       /\ session = obs[c].pre

\* C7: when the init response is well formed, the message is printed, and it is
\* printed before the first poll request is sent.
C7_MessageBeforePolling ==
  \A c \in Callers :
    (InitWellFormed(c) /\ (pc[c] = "idle" \/ obs[c].polls > 0))
    => obs[c].printed = 1

\* C8: authenticate always ends, by returning or by raising, whatever the HTTP
\* capability answers, as long as the clock keeps advancing.
C8_AuthenticateTerminates ==
  (op[MainCaller] = "authenticate" /\ pc[MainCaller] # "idle")
    ~> (pc[MainCaller] = "idle")

C8_Witness ==
  /\ Ended(MainCaller, "authenticate")
  /\ obs[MainCaller].failed >= 1
  /\ obs[MainCaller].parsed >= 1
  /\ now >= frame[MainCaller].t_end

C10_SleepOnlyAfterFailure ==
  \A c \in Callers :
    op[c] = "authenticate"
    => IF pc[c] = "au_sleep"
       THEN /\ frame[c].response.status \in {"raise", "nonjson"}
            /\ obs[c].failed = obs[c].sleeps + 1
       ELSE obs[c].sleeps = obs[c].failed

C10_Witness ==
  /\ op[MainCaller] = "authenticate"
  /\ pc[MainCaller] = "au_loop"
  /\ obs[MainCaller].sleeps = 1
  /\ obs[MainCaller].failed = 1
  /\ obs[MainCaller].parsed = 1
  /\ frame[MainCaller].response.status = "json"

\* C11: refresh_token posts to the endpoint and with the client id stored in
\* the session, redeem_refresh_token posts to the provider's current
\* auth_token_url, also after the setter has changed the provider's url.
C11_RefreshAndRedeemEndpoints ==
  \A c \in Callers :
    /\ (op[c] \in {"refresh_token", "authenticate_request"} /\ obs[c].nsent >= 1)
       => /\ obs[c].lastReq.url = obs[c].pre.auth_token_url
          /\ obs[c].lastReq.client_id = obs[c].pre.client_id
    /\ (op[c] = "redeem_refresh_token" /\ obs[c].nsent >= 1)
       => /\ obs[c].lastReq.url = auth_token_url
          /\ obs[c].lastReq.client_id = obs[c].pre.client_id

\* the setter moved the provider to the other endpoint; the refresh went to the
\* session's endpoint
C11_Witness ==
  /\ Ended(MainCaller, "refresh_token")
  /\ obs[MainCaller].nsent = 1
  /\ auth_token_url = OtherTokenUrl
  /\ session.auth_token_url = TenantTokenUrl
  /\ obs[MainCaller].lastReq.url = TenantTokenUrl

\* the request of refresh_token failed: send raised, the body was not JSON, or
\* the object lacks expires_in, access_token or refresh_token
RefreshFailed(c) ==
  \/ frame[c].response.status \in {"raise", "nonjson"}
  \/ ~({"expires_in", "access_token", "refresh_token"}
         \subseteq frame[c].response.body.keys)

\* C12: when the request of refresh_token fails or its response cannot be
\* used, the error reaches the caller, exactly one request was sent, nothing
\* slept, and every field of the session is unchanged.
C12_RefreshFailurePropagates ==
  \A c \in Callers :
    (Ended(c, "refresh_token") /\ obs[c].nsent >= 1 /\ RefreshFailed(c))
    => /\ outcome[c] \in {"TransportError", "MalformedResponse", "KeyError"}
       /\ obs[c].nsent = 1
       /\ obs[c].sleeps = 0
       /\ obs[c].applied = 0
       /\ session = obs[c].pre

C12_Witness ==
  /\ Ended(MainCaller, "refresh_token")
  /\ outcome[MainCaller] = "KeyError"
  /\ ~Has(frame[MainCaller].response.body, "refresh_token")
  /\ obs[MainCaller].nsent = 1
  /\ session = obs[MainCaller].pre

\* C13: a refresh_token call that returns has updated the session in place: the
\* access token and refresh token are the response's, the expiry is the time of
\* the update plus the response's expires_in, token_type, client_id and
\* auth_token_url are as before, and self._session was not assigned.
C13_RefreshUpdatesInPlace ==
  \A c \in Callers :
    (Ended(c, "refresh_token") /\ outcome[c] = "ok")
    => /\ session.access_token = frame[c].response.body.access_token
       /\ session.refresh_token = frame[c].response.body.refresh_token
       /\ session.expires_at =
            obs[c].appliedAt + frame[c].response.body.expires_in
       /\ session.token_type = obs[c].pre.token_type
       /\ session.client_id = obs[c].pre.client_id
       /\ session.auth_token_url = obs[c].pre.auth_token_url
       /\ obs[c].applied = 1
       /\ obs[c].assigned = 0

\* the refresh changed both tokens, some time before the caller is looked at
C13_Witness ==
  /\ Ended(MainCaller, "refresh_token")
  /\ outcome[MainCaller] = "ok"
  /\ obs[MainCaller].pre.access_token = "at0"
  /\ session.access_token = "at2"
  /\ session.refresh_token = "rt1"
  /\ now > obs[MainCaller].appliedAt

\* C14: when is_expired() answered false, authenticate_request sends no HTTP
\* request and leaves every field of the session unchanged; all it does is
\* attach the header.
C14_NoRefreshWhenNotExpired ==
  \A c \in Callers :
    (/\ op[c] = "authenticate_request"
     /\ obs[c].pre # NoSession
     /\ ~obs[c].sawExpired
     /\ pc[c] \notin {"ar_check", "ar_expired"})
    => /\ pc[c] \in {"ar_attach", "idle"}
       /\ obs[c].nsent = 0
       /\ obs[c].applied = 0
       /\ obs[c].assigned = 0
       /\ obs[c].storeOps = 0
       /\ obs[c].printed = 0
       /\ session = obs[c].pre
       /\ pc[c] = "idle" => outcome[c] = "ok" /\ Len(obs[c].hdr) = 1

C14_Witness ==
  /\ Ended(MainCaller, "authenticate_request")
  /\ ~obs[MainCaller].sawExpired
  /\ outcome[MainCaller] = "ok"
  /\ session.refresh_token # None
  /\ Len(obs[MainCaller].hdr) = 1

\* C15: the Authorization header carries the session's access token as it is
\* when the header is attached; after a refresh of an expired session that is
\* the access_token of the refresh response.
C15_HeaderCarriesCurrentToken ==
  \A c \in Callers :
    (op[c] = "authenticate_request" /\ obs[c].hdr # <<>>)
    => /\ obs[c].hdr[1].name = "Authorization"
       /\ obs[c].hdr[1].scheme = "bearer"
       /\ obs[c].hdr[1].token = session.access_token
       /\ obs[c].sawExpired =>
            obs[c].hdr[1].token = frame[c].response.body.access_token

C15_Witness ==
  /\ Ended(MainCaller, "authenticate_request")
  /\ obs[MainCaller].sawExpired
  /\ obs[MainCaller].pre.access_token = "at0"
  /\ Len(obs[MainCaller].hdr) = 1
  /\ obs[MainCaller].hdr[1].token = "at1"

\* C19: authenticate_request attaches the Authorization header exactly when it
\* returns normally: a call that raises has attached nothing, a call that
\* returns has attached one header.
C19_HeaderIffReturns ==
  \A c \in Callers :
    op[c] = "authenticate_request"
    => /\ pc[c] # "idle" => obs[c].hdr = <<>>
       /\ (pc[c] = "idle" /\ outcome[c] = "ok") => Len(obs[c].hdr) = 1
       /\ (pc[c] = "idle" /\ outcome[c] # "ok") => obs[c].hdr = <<>>

C19_Witness ==
  /\ Ended(MainCaller, "authenticate_request")
  /\ obs[MainCaller].sawExpired
  /\ outcome[MainCaller] = "MalformedResponse"
  /\ obs[MainCaller].nsent = 1
  /\ obs[MainCaller].hdr = <<>>

\* the three members of a session that a token response must supply
Complete(s) ==
  /\ s.token_type # ""
  /\ s.access_token # ""
  /\ s.expires_at > 0

\* C18: the session held is never partially constructed.  authenticate assigns
\* a session only from a parsed poll response holding token_type, expires_in
\* and access_token; when the last parsed poll response lacks one of them,
\* authenticate ends with an error and the session is what it was before.
C18_NoPartialSession ==
  /\ session # NoSession => Complete(session)
  /\ \A c \in Callers :
       op[c] = "authenticate"
       => /\ obs[c].assigned >= 1
             => /\ obs[c].parsed >= 1
                /\ SessionMembers \subseteq frame[c].rcont.keys
          /\ (/\ pc[c] = "idle"
              /\ obs[c].parsed >= 1
              /\ ~(SessionMembers \subseteq frame[c].rcont.keys))
             => /\ outcome[c] \notin {"ok", "running"}
                /\ obs[c].assigned = 0
                /\ session = obs[c].pre

C18_Witness ==
  /\ Ended(MainCaller, "authenticate")
  /\ obs[MainCaller].parsed >= 1
  /\ frame[MainCaller].rcont = PendingBody
  /\ obs[MainCaller].first = PollTokenBody(1, "at1", "rt1")
  /\ obs[MainCaller].pre # NoSession
  /\ session = obs[MainCaller].pre

\* the call of caller c that assigns self._session returns in this step
Assigns(c) ==
  /\ \/ op[c] = "load_session" /\ pc[c] = "ld"
     \/ op[c] = "authenticate" /\ pc[c] = "au_resolve"
  /\ pc'[c] = "idle"
  /\ outcome'[c] = "ok"

\* C17: the provider holds no session after construction; the session becomes
\* present, or is replaced by another one, only in the step in which an
\* authenticate call or a load_session call returns normally; every other
\* change keeps token_type, client_id and auth_token_url (an update in place);
\* a session that is present never becomes absent.
C17_SessionLifecycle ==
  /\ session = NoSession
  /\ [][ /\ (session = NoSession /\ session' # NoSession)
            => \E c \in Callers : Assigns(c)
         /\ session # NoSession => session' # NoSession
         /\ (\E c \in Callers : op'[c] = op[c] /\ pc[c] # "idle"
                                /\ obs'[c].assigned > obs[c].assigned)
            => \E c \in Callers : Assigns(c)
         /\ (/\ session # NoSession
             /\ session' # session
             /\ ~(\E c \in Callers : Assigns(c)))
            => /\ session'.token_type = session.token_type
               /\ session'.client_id = session.client_id
               /\ session'.auth_token_url = session.auth_token_url
       ]_vars

C17_Witness ==
  /\ Ended(MainCaller, "load_session")
  /\ outcome[MainCaller] = "ok"
  /\ obs[MainCaller].pre # NoSession
  /\ obs[MainCaller].pre.access_token = "at1"
  /\ session.access_token = "at0"
  /\ session.auth_token_url # obs[MainCaller].pre.auth_token_url

C16_LastResponseWins ==
  /\ \A c \in Callers :
       (op[c] = "authenticate_request" /\ obs[c].last)
       => /\ obs[c].applied = 1
          /\ session.access_token = frame[c].response.body.access_token
          /\ session.refresh_token = frame[c].response.body.refresh_token
          /\ session.expires_at =
               obs[c].appliedAt + frame[c].response.body.expires_in
  /\ \A c, d \in Callers : (obs[c].last /\ obs[d].last) => c = d

C16_Witness ==
  /\ \A c \in Callers :
       /\ Ended(c, "authenticate_request")
       /\ outcome[c] = "ok"
       /\ obs[c].sawExpired
       /\ obs[c].nsent = 1
       /\ obs[c].applied = 1
       /\ obs[c].lastReq.refresh_token = "rt0"
  /\ obs["c1"].pre = obs["c2"].pre
  /\ frame["c1"].response.body.access_token = "at1"
  /\ frame["c2"].response.body.access_token = "at2"
  /\ obs["c2"].last
  /\ session.access_token = "at2"
====
